---- MODULE Spec2Model ----
(***************************************************************************)
(* Model of arthur/jobs.py: JobResult, PercevalJob and the RQ entry        *)
(* function execute_perceval_job.                                          *)
(*                                                                         *)
(* The Perceval items generator, the backend registry, the archive         *)
(* manager, the Redis list and the RQ job are collaborators; each is       *)
(* modelled at the interface jobs.py uses, with every outcome (a value or  *)
(* a raised error) the interface allows.                                   *)
(***************************************************************************)
EXTENDS Integers, Sequences, FiniteSets, TLC

\* ------------------------------------------------------------------ bounds

\* The most raw items the backend of one items generator fetches (yielded
\* or skipped).
MaxItems == 2

\* The most calls of run on one PercevalJob.
MaxRuns == 2

\* ----------------------------------------------------------- Python values

\* Python's None.
None == [py |-> "None"]

\* A Python str, a Python bool and a datetime, kept apart from None.
Str(s) == [str |-> s]
Bool(b) == [bool |-> b]
Datetime(n) == [dt |-> n]

\* Python truthiness of the values tested by `if x:` / `x and y` in jobs.py.
Truthy(v) == v \notin {None, Str(""), Bool(FALSE)}

\* datetime.timestamp(): the epoch seconds of a datetime.
timestamp(d) == d.dt

\* dict item assignment d[k] = v: replaces the value of a key that is there.
DictSet(d, k, v) == [x \in DOMAIN d \cup {k} |-> IF x = k THEN v ELSE d[x]]

\* A dict object: which object it is, and its content.  The caller's
\* backend_args is the object "caller".
DictObject(obj, d) == [obj |-> obj, dict |-> d]

\* What an object that was given the dict object a keeps: a reference to it.
Handle(a) == [obj |-> a.obj]

\* run returns or raises: its local variable args is gone.
Returned(c) == [c EXCEPT !.args = None]

\* Mutation of dict.copy(): the dict itself is handed on.
no_copy(d) ==
    DictObject("caller", d)

\* dict.copy(): a new dict object with the same keys and values.
copy(d) ==
    DictObject("copy", d)

\* ---------------------------------------------------------------- errors

\* An exception object: its class and where it was raised.
Error(type, at) == [type |-> type, at |-> at]

\* Classes caught by `except AttributeError`.
IsAttributeError(e) == e.type = "AttributeError"

\* Classes caught by `except Exception`: KeyboardInterrupt derives from
\* BaseException only.
IsException(e) == e.type # "KeyboardInterrupt"

\* What a collaborator (backend, generator, Redis, pickle) can raise.
RaisedTypes == {"AttributeError", "RuntimeError", "KeyboardInterrupt"}

\* --------------------------------------------------------------- constants

\* arthur._version.__version__
version == "0.1.18"

\* rq.get_current_job().id
RqJobId == "rq-job-1"

TaskId == "task-1"
Category == "commit"

\* perceval.backend.find_backends(perceval.backends)[0]: the registry, with
\* each backend class's has_archiving() and has_resuming().
Registry ==
    [git    |-> [name |-> "git",    archiving |-> FALSE, resuming |-> TRUE],
     github |-> [name |-> "github", archiving |-> TRUE,  resuming |-> TRUE]]

BackendNames == {"git", "github", "gitlab-unknown"}

\* The raw items a backend yields; the second already carries a job_id key.
Items ==
    { [uuid |-> "a", updated_on |-> 20, offset |-> 1],
      [uuid |-> "b", updated_on |-> 10, offset |-> 2, job_id |-> "stale-job"] }

BackendArgs == [uri |-> "http://example.com/repo.git"]

\* archive_args: None, or a dict with archive_path and fetch_from_archive
\* and, optionally, archived_after.
ArchivePaths == {None, Str(""), Str("/tmp/archive")}

ArchiveArgs ==
    {None}
    \cup [archive_path : ArchivePaths, fetch_from_archive : {Bool(TRUE), Bool(FALSE)}]
    \cup [archive_path : ArchivePaths, fetch_from_archive : {Bool(TRUE), Bool(FALSE)},
          archived_after : {Datetime(5)}]

\* --------------------------------------------------------------- JobResult

\* Mutation of JobResult.__init__: the two identifiers are stored swapped.
JobResultSwapped(job_id, task_id, backend, category) ==
    [job_id |-> task_id, task_id |-> job_id, backend |-> backend,
     category |-> category, summary |-> None]

\* JobResult.__init__: the summary starts as None.
JobResult(job_id, task_id, backend, category) ==
    [job_id |-> job_id, task_id |-> task_id, backend |-> backend,
     category |-> category, summary |-> None]

StatKeys ==
    {"fetched", "skipped", "min_updated_on", "max_updated_on", "last_updated_on",
     "last_uuid", "min_offset", "max_offset", "last_offset", "extras"}

\* JobResult.to_dict on a result whose summary field holds the Summary object
\* itself (or None).  The three .timestamp() calls raise AttributeError on a
\* summary whose dates are still None.
to_dict(r) ==
    LET base == [job_id |-> r.job_id, task_id |-> r.task_id]
        s == r.summary
    IN  IF ~Truthy(s)
        THEN [raised |-> None, value |-> base]
        ELSE IF None \in {s.min_updated_on, s.max_updated_on, s.last_updated_on}
        THEN [raised |-> Error("AttributeError", "to_dict"), value |-> None]
        ELSE [raised |-> None,
              value |->
                [k \in {"job_id", "task_id"} \cup StatKeys |->
                    CASE k = "job_id" -> r.job_id
                      [] k = "task_id" -> r.task_id
                      [] k = "fetched" -> s.fetched
                      [] k = "skipped" -> s.skipped
                      [] k = "min_updated_on" -> timestamp(s.min_updated_on)
                      [] k = "max_updated_on" -> timestamp(s.max_updated_on)
                      [] k = "last_updated_on" -> timestamp(s.last_updated_on)
                      [] k = "last_uuid" -> s.last_uuid
                      [] k = "min_offset" -> s.min_offset
                      [] k = "max_offset" -> s.max_offset
                      [] k = "last_offset" -> s.last_offset
                      [] k = "extras" -> s.extras]]

\* ------------------------------------------- the Perceval items generator

\* perceval.backend.Summary(): counters at zero, every watermark None.
Summary ==
    [fetched |-> 0, skipped |-> 0,
     min_updated_on |-> None, max_updated_on |-> None, last_updated_on |-> None,
     last_uuid |-> None,
     min_offset |-> None, max_offset |-> None, last_offset |-> None,
     extras |-> None]

Offset(n) == [off |-> n]

\* Summary.update(item): one more item fetched, the watermarks moved.
SummaryUpdate(s, item) ==
    LET d == Datetime(item.updated_on)
        o == Offset(item.offset)
    IN  [s EXCEPT
            !.fetched = @ + 1,
            !.min_updated_on = IF @ = None THEN d ELSE IF d.dt < @.dt THEN d ELSE @,
            !.max_updated_on = IF @ = None THEN d ELSE IF d.dt > @.dt THEN d ELSE @,
            !.last_updated_on = d,
            !.last_uuid = Str(item.uuid),
            !.min_offset = IF @ = None THEN o ELSE IF o.off < @.off THEN o ELSE @,
            !.max_offset = IF @ = None THEN o ELSE IF o.off > @.off THEN o ELSE @,
            !.last_offset = o]

\* One raw item left out of the items: counted as skipped.
SummarySkip(s) == [s EXCEPT !.skipped = @ + 1]

\* BackendItemsGenerator(...): a new generator; nothing is fetched, and its
\* summary is None, until its items are iterated.  id names the object, run
\* the call of run that built it.
BackendItemsGenerator(bklass, backend_args, category, manager, fetch_archive, archived_after, id, run) ==
    [id |-> id, run |-> run, bklass |-> bklass, backend_args |-> backend_args,
     category |-> category, manager |-> manager, fetch_archive |-> fetch_archive,
     archived_after |-> archived_after,
     summary |-> None, produced |-> <<>>, state |-> "new"]

\* The Summary object of a generator that has started fetching.
Started(g) == IF g.summary = None THEN Summary ELSE g.summary

\* ------------------------------------------------------------ PercevalJob

\* A reference to the Summary object of generator id (Python aliasing: the
\* JobResult and the generator share one Summary object).
Ref(id) == [ref |-> id]

\* Mutation of PercevalJob.__init__: a backend the registry lacks falls back
\* to the git backend instead of raising.
PercevalJobInitDefault(job_id, task_id, backend, category, conn, qitems) ==
    [raised |-> None,
     job |-> [bklass |-> IF backend \in DOMAIN Registry THEN Registry[backend]
                         ELSE Registry["git"],
              job_id |-> job_id, task_id |-> task_id, backend |-> backend,
              conn |-> conn, qitems |-> qitems,
              archive_manager |-> None, category |-> category,
              big |-> None,
              res |-> JobResult(job_id, task_id, backend, category)]]

\* PercevalJob.__init__: NotFoundError for a backend the registry lacks.
PercevalJobInit(job_id, task_id, backend, category, conn, qitems) ==
    IF backend \notin DOMAIN Registry
    THEN [raised |-> Error("NotFoundError", "__init__"), job |-> None]
    ELSE [raised |-> None,
          job |-> [bklass |-> Registry[backend],
                   job_id |-> job_id, task_id |-> task_id, backend |-> backend,
                   conn |-> conn, qitems |-> qitems,
                   archive_manager |-> None, category |-> category,
                   big |-> None,
                   res |-> JobResult(job_id, task_id, backend, category)]]

\* Mutation of the property result: _result is returned as it is, the
\* generator's summary is not copied in.
result_as_is(job) ==
    job

\* The property PercevalJob.result: the executor after the read; the value
\* returned is its res field.
result(job) ==
    IF ~Truthy(job.res.summary) /\ Truthy(job.big) /\ Truthy(job.big.summary)
    THEN [job EXCEPT !.res.summary = Ref(job.big.id)]
    ELSE job

\* The object graph behind a JobResult: the summary reference followed to
\* the Summary object it names.
Deref(job, r) ==
    [r EXCEPT !.summary = IF @ = None THEN None ELSE job.big.summary]

\* Mutation of initialize_archive_manager: the empty path is taken as no
\* path instead of being refused.
initialize_archive_manager_unchecked(job, archive_path, ctor, run) ==
    IF Truthy(archive_path)
    THEN IF ctor # None
         THEN [raised |-> ctor, job |-> job]
         ELSE [raised |-> None,
               job |-> [job EXCEPT !.archive_manager =
                                      [path |-> archive_path, run |-> run]]]
    ELSE [raised |-> None, job |-> job]

\* PercevalJob.initialize_archive_manager.  ctor is what the constructor
\* ArchiveManager(archive_path) does: None, or the error it raises.
initialize_archive_manager(job, archive_path, ctor, run) ==
    IF archive_path = Str("")
    THEN [raised |-> Error("ValueError", "initialize_archive_manager"), job |-> job]
    ELSE IF Truthy(archive_path)
    THEN IF ctor # None
         THEN [raised |-> ctor, job |-> job]
         ELSE [raised |-> None,
               job |-> [job EXCEPT !.archive_manager =
                                      [path |-> archive_path, run |-> run]]]
    ELSE [raised |-> None, job |-> job]

\* PercevalJob.has_archiving / has_resuming
has_archiving(job) == job.bklass.archiving
has_resuming(job) == job.bklass.resuming

\* Mutation of _create_items_generator: archived_after is read from
\* archive_args whatever fetch_from_archive says.
create_items_generator_any_after(job, backend_args, archive_args, id, run) ==
    LET fetch_archive ==
            IF Truthy(archive_args) THEN archive_args.fetch_from_archive
            ELSE archive_args
        archived_after ==
            IF Truthy(archive_args) /\ "archived_after" \in DOMAIN archive_args
            THEN archive_args.archived_after ELSE None
    IN  BackendItemsGenerator(job.bklass, backend_args, job.category,
                              job.archive_manager, fetch_archive, archived_after,
                              id, run)

\* PercevalJob._create_items_generator: the arguments it gives the generator.
create_items_generator(job, backend_args, archive_args, id, run) ==
    LET fetch_archive ==
            IF Truthy(archive_args) THEN archive_args.fetch_from_archive
            ELSE archive_args
        archived_after ==
            IF Truthy(fetch_archive)
            THEN IF "archived_after" \in DOMAIN archive_args
                 THEN archive_args.archived_after ELSE None
            ELSE None
    IN  BackendItemsGenerator(job.bklass, backend_args, job.category,
                              job.archive_manager, fetch_archive, archived_after,
                              id, run)

\* Mutation of _metadata: a job_id the item already carries is kept.
metadata_setdefault(job, item) ==
    LET it == DictSet(item, "arthur_version", version)
    IN  IF "job_id" \in DOMAIN it THEN it ELSE DictSet(it, "job_id", job.job_id)

\* PercevalJob._metadata: the two fields set in place on the item.
metadata(job, item) ==
    DictSet(DictSet(item, "arthur_version", version), "job_id", job.job_id)

\* pickle.dumps / pickle.loads: a blob holds the item as it was when dumped.
dumps(item) == [pickle |-> item]
loads(blob) == blob.pickle

\* Mutation of rpush: the blob goes to the head of the list (LPUSH).
lpush(q, blob) == <<blob>> \o q

\* Mutation of rpush: the blob is appended twice.
rpush_twice(q, blob) == Append(Append(q, blob), blob)

\* conn.rpush(qitems, blob): the blob goes to the tail of the list.
rpush(q, blob) == Append(q, blob)

\* ------------------------------------------------------------------ state

VARIABLES
    mode,       \* who drives the executor: "entry" (execute_perceval_job) or
                \* "direct" (a caller that owns a PercevalJob and calls run)
    pc,         \* where the driver is
    backend,    \* the backend name given to the constructor
    job,        \* the PercevalJob, None before it is constructed
    call,       \* the arguments of the current call of run
    runs,       \* calls of run made on the executor
    nbig,       \* items generators built so far
    qbase,      \* length of the Redis list when the current run was called
    item,       \* the loop variable of run
    queue,      \* the Redis list qitems
    raised,     \* the error that ended the last operation, None if none did
    meta,       \* rq_job.meta
    saved,      \* the metadata persisted by rq_job.save_meta()
    saves,      \* calls of rq_job.save_meta()
    outcome,    \* how execute_perceval_job ended: what it returned or raised
    lastRead    \* what the last read of job.result returned, and its to_dict()

vars ==
    <<mode, pc, backend, job, call, runs, nbig, qbase, item, queue, raised,
      meta, saved, saves, outcome, lastRead>>

\* An item another job left on the Redis list.
PriorBlob ==
    dumps([uuid |-> "z", updated_on |-> 1, offset |-> 0,
           arthur_version |-> "0.1.17", job_id |-> "rq-job-0"])

InitialQueue == <<PriorBlob>>

\* An empty dict.
EmptyDict == [k \in {} |-> None]

\* The driver is between two operations on the executor.
Idle == {"constructed", "run_completed", "run_failed"}

Init ==
    /\ mode \in {"entry", "direct"}
    /\ pc = "start"
    /\ backend = None
    /\ job = None
    /\ call = None
    /\ runs = 0
    /\ nbig = 0
    /\ qbase = 0
    /\ item = None
    /\ queue = InitialQueue
    /\ raised = None
    /\ meta = EmptyDict
    /\ saved = EmptyDict
    /\ saves = 0
    /\ outcome = None
    /\ lastRead = None

\* ---------------------------------------------------------------- actions

\* rq.get_current_job() and PercevalJob(...), lines 241-244 (and the same
\* constructor called by a direct caller).
Construct ==
    /\ pc = "start"
    /\ \E b \in BackendNames :
        LET r == PercevalJobInit(RqJobId, TaskId, b, Category, "conn", "items")
        IN  /\ backend' = Str(b)
            /\ job' = r.job
            /\ raised' = r.raised
            /\ pc' = IF r.raised = None THEN "constructed" ELSE "done"
            /\ outcome' = IF r.raised # None /\ mode = "entry"
                          THEN [raised |-> r.raised] ELSE outcome
    /\ UNCHANGED <<mode, call, runs, nbig, qbase, item, queue, meta, saved,
                   saves, lastRead>>

\* Mutation of the check of line 249: only a request to fetch from the
\* archive is refused.
ArchivingRejectedOnFetch(j, archive_args) ==
    ~has_archiving(j) /\ Truthy(archive_args)
        /\ Truthy(archive_args.fetch_from_archive)

\* Line 249: archive arguments given for a backend without archiving.
ArchivingRejected(j, archive_args) == ~has_archiving(j) /\ Truthy(archive_args)

\* Lines 249-253 of execute_perceval_job: the capability check, then the
\* call of run with the arguments of the job.
EntryCheck ==
    /\ mode = "entry"
    /\ pc = "constructed"
    /\ \E aa \in ArchiveArgs :
        /\ call' = [backend_args |-> BackendArgs, archive_args |-> aa,
                    args |-> None]
        /\ IF ArchivingRejected(job, aa)
           THEN /\ raised' = Error("AttributeError", "execute_perceval_job")
                /\ outcome' = [raised |-> raised']
                /\ pc' = "done"
           ELSE /\ pc' = "run_call"
                /\ UNCHANGED <<raised, outcome>>
    /\ UNCHANGED <<mode, backend, job, runs, nbig, qbase, item, queue, meta,
                   saved, saves, lastRead>>

\* A direct caller calls run on its executor, for the first time or again.
DirectCall ==
    /\ mode = "direct"
    /\ pc \in Idle
    /\ runs < MaxRuns
    /\ \E aa \in ArchiveArgs :
        call' = [backend_args |-> BackendArgs, archive_args |-> aa,
                 args |-> None]
    /\ pc' = "run_call"
    /\ raised' = None
    /\ lastRead' = None
    /\ UNCHANGED <<mode, backend, job, runs, nbig, qbase, item, queue, meta,
                   saved, saves, outcome>>

\* What the constructor ArchiveManager(path) can do: succeed or raise.
ArchiveManagerOutcomes == {None, Error("ArchiveManagerError", "ArchiveManager")}

\* Mutation of run: the result is replaced first, before the archive
\* manager is initialized.
RunBeginResetFirst ==
    /\ pc = "run_call"
    /\ runs' = runs + 1
    /\ qbase' = Len(queue)
    /\ LET j == [job EXCEPT !.res = JobResult(job.job_id, job.task_id,
                                              job.backend, job.category)]
       IN  IF Truthy(call.archive_args)
           THEN \E ctor \in ArchiveManagerOutcomes :
                  LET r == initialize_archive_manager(
                               j, call.archive_args.archive_path, ctor, runs + 1)
                  IN  /\ job' = r.job
                      /\ raised' = r.raised
                      /\ pc' = IF r.raised = None THEN "run_initialized"
                               ELSE "run_failed"
           ELSE /\ pc' = "run_initialized"
                /\ job' = j
                /\ UNCHANGED raised
    /\ call' = IF pc' = "run_failed" THEN Returned(call)
               ELSE [call EXCEPT !.args = copy(call.backend_args)]
    /\ UNCHANGED <<mode, backend, nbig, item, queue, meta, saved, saves,
                   outcome, lastRead>>

\* run, lines 151-154: the copy of backend_args and the archive manager.
RunBegin ==
    /\ pc = "run_call"
    /\ runs' = runs + 1
    /\ qbase' = Len(queue)
    /\ IF Truthy(call.archive_args)
       THEN \E ctor \in ArchiveManagerOutcomes :
              LET r == initialize_archive_manager(job, call.archive_args.archive_path,
                                                  ctor, runs + 1)
              IN  /\ job' = r.job
                  /\ raised' = r.raised
                  /\ pc' = IF r.raised = None THEN "run_initialized" ELSE "run_failed"
       ELSE /\ pc' = "run_initialized"
            /\ UNCHANGED <<job, raised>>
    /\ call' = IF pc' = "run_failed" THEN Returned(call)
               ELSE [call EXCEPT !.args = copy(call.backend_args)]
    /\ UNCHANGED <<mode, backend, nbig, item, queue, meta, saved, saves,
                   outcome, lastRead>>

\* What the constructor BackendItemsGenerator(...) can do: succeed or raise.
GeneratorOutcomes ==
    {None} \cup {Error(t, "BackendItemsGenerator") : t \in {"AttributeError", "RuntimeError"}}

\* What the generator may do to the dict it is given: leave it, or set a
\* key of its own in it.
Touched(d, touch) == IF touch THEN DictSet(d, "category", Category) ELSE d

\* The arguments of the call after the generator worked on the dict object
\* a: the caller's backend_args changes only if a is that very object.
AfterTouch(c, a) ==
    IF a.obj = "caller" THEN [c EXCEPT !.backend_args = a.dict, !.args = a]
    ELSE [c EXCEPT !.args = a]

\* run, lines 156-159: the result is replaced, then the generator is built
\* from the copied arguments; _big is assigned only if the constructor returns.
RunCreate ==
    /\ pc = "run_initialized"
    /\ \E ctor \in GeneratorOutcomes, touch \in BOOLEAN :
        LET j == [job EXCEPT !.res = JobResult(job.job_id, job.task_id,
                                               job.backend, job.category)]
            a == [call.args EXCEPT !.dict = Touched(@, touch)]
        IN  IF ctor = None
            THEN /\ job' = [j EXCEPT !.big = create_items_generator(
                                j, Handle(a), call.archive_args, nbig + 1, runs)]
                 /\ call' = AfterTouch(call, a)
                 /\ nbig' = nbig + 1
                 /\ pc' = "streaming"
                 /\ UNCHANGED raised
            ELSE /\ job' = j
                 /\ call' = Returned(AfterTouch(call, a))
                 /\ raised' = ctor
                 /\ pc' = "run_failed"
                 /\ UNCHANGED nbig
    /\ UNCHANGED <<mode, backend, runs, qbase, item, queue, meta, saved,
                   saves, outcome, lastRead>>

\* The generator's summary after it left s raw items out (s is 0 or 1).
Skipping(g, s) == IF s = 1 THEN SummarySkip(Started(g)) ELSE Started(g)

\* Raw items the backend of g has fetched so far.
Raw(g) == Started(g).fetched + Started(g).skipped

\* run, line 161: the for statement asks the generator for its next item.
\* The generator yields one, is exhausted, or raises.
NextItem ==
    /\ pc = "streaming"
    /\ \/ \E it \in Items, s \in {0, 1} :
            /\ Raw(job.big) + s < MaxItems
            /\ job' = [job EXCEPT
                          !.big.summary = SummaryUpdate(Skipping(job.big, s), it),
                          !.big.produced = Append(@, it),
                          !.big.state = "running"]
            /\ item' = it
            /\ pc' = "pushing"
            /\ UNCHANGED <<raised, call>>
       \/ \E s \in {0, 1} :
            /\ Raw(job.big) + s <= MaxItems
            /\ job' = [job EXCEPT !.big.summary = Skipping(job.big, s),
                                  !.big.state = "exhausted"]
            /\ item' = None
            /\ pc' = "run_completed"
            /\ call' = Returned(call)
            /\ UNCHANGED raised
       \/ \E t \in RaisedTypes, begun \in BOOLEAN :
            /\ job' = [job EXCEPT
                          !.big.summary = IF begun THEN Started(job.big) ELSE @,
                          !.big.state = "failed"]
            /\ raised' = Error(t, "items")
            /\ item' = None
            /\ pc' = "run_failed"
            /\ call' = Returned(call)
    /\ UNCHANGED <<mode, backend, runs, nbig, qbase, queue, meta, saved,
                   saves, outcome, lastRead>>

\* Mutation of the loop body of run: an error of pickle.dumps or rpush is
\* swallowed and the loop goes on with the next item.
PushSwallow ==
    /\ pc = "pushing"
    /\ \/ /\ queue' = rpush(queue, dumps(metadata(job, item)))
          /\ UNCHANGED raised
       \/ \E t \in RaisedTypes :
          /\ raised' = Error(t, "rpush")
          /\ UNCHANGED queue
    /\ pc' = "streaming"
    /\ item' = None
    /\ UNCHANGED <<mode, backend, job, call, runs, nbig, qbase, meta, saved,
                   saves, outcome, lastRead>>

\* Mutation of the loop body of run: a push that raised is tried again with
\* the same item.
PushRetry ==
    /\ pc = "pushing"
    /\ \/ /\ queue' = rpush(queue, dumps(metadata(job, item)))
          /\ pc' = "streaming"
          /\ item' = None
          /\ UNCHANGED raised
       \/ \E t \in RaisedTypes :
          /\ raised' = Error(t, "rpush")
          /\ pc' = "pushing"
          /\ UNCHANGED <<queue, item>>
    /\ UNCHANGED <<mode, backend, job, call, runs, nbig, qbase, meta, saved,
                   saves, outcome, lastRead>>

\* run, lines 162-163: the metadata is set on the item, the item is pickled
\* and pushed; pickle.dumps or rpush may raise instead.
Push ==
    /\ pc = "pushing"
    /\ \/ /\ queue' = rpush(queue, dumps(metadata(job, item)))
          /\ pc' = "streaming"
          /\ UNCHANGED <<raised, call>>
       \/ \E t \in RaisedTypes :
          /\ raised' = Error(t, "rpush")
          /\ pc' = "run_failed"
          /\ call' = Returned(call)
          /\ UNCHANGED queue
    /\ item' = None
    /\ UNCHANGED <<mode, backend, job, runs, nbig, qbase, meta, saved,
                   saves, outcome, lastRead>>

\* Lines 254-256: the except clause that stores the result is the second
\* one; an AttributeError is taken by the first, anything that is not an
\* Exception by none.
Persists(e) == ~IsAttributeError(e) /\ IsException(e)

\* The error execute_perceval_job raises for the error e that left run.
Reraise(e) == e

\* Lines 254-262: run raised.
EntryExcept ==
    /\ mode = "entry"
    /\ pc = "run_failed"
    /\ IF Persists(raised)
       THEN /\ job' = result(job)
            /\ meta' = DictSet(meta, "result", Deref(job', job'.res))
            /\ saved' = meta'
            /\ saves' = saves + 1
       ELSE UNCHANGED <<job, meta, saved, saves>>
    /\ outcome' = [raised |-> Reraise(raised)]
    /\ pc' = "done"
    /\ UNCHANGED <<mode, backend, call, runs, nbig, qbase, item, queue, raised,
                   lastRead>>

\* Mutation of execute_perceval_job: the result is stored in the metadata
\* when run returns, too.
EntryReturnSaving ==
    /\ mode = "entry"
    /\ pc = "run_completed"
    /\ job' = result(job)
    /\ meta' = DictSet(meta, "result", Deref(job', job'.res))
    /\ saved' = meta'
    /\ saves' = saves + 1
    /\ IF job'.res.summary = None
       THEN /\ raised' = Error("AttributeError", "execute_perceval_job")
            /\ outcome' = [raised |-> raised']
       ELSE /\ outcome' = [returned |-> Deref(job', job'.res)]
            /\ UNCHANGED raised
    /\ pc' = "done"
    /\ UNCHANGED <<mode, backend, call, runs, nbig, qbase, item, queue,
                   lastRead>>

\* Lines 264-271: run returned; the log line reads result.summary.fetched.
EntryReturn ==
    /\ mode = "entry"
    /\ pc = "run_completed"
    /\ job' = result(job)
    /\ IF job'.res.summary = None
       THEN /\ raised' = Error("AttributeError", "execute_perceval_job")
            /\ outcome' = [raised |-> raised']
       ELSE /\ outcome' = [returned |-> Deref(job', job'.res)]
            /\ UNCHANGED raised
    /\ pc' = "done"
    /\ UNCHANGED <<mode, backend, call, runs, nbig, qbase, item, queue, meta,
                   saved, saves, lastRead>>

\* A direct caller reads job.result between two calls of run, and converts
\* what it read with to_dict().  run is the call of run that built the
\* generator whose summary the result holds (0: no summary).
ReadResult ==
    /\ mode = "direct"
    /\ pc \in Idle
    /\ job' = result(job)
    /\ lastRead' = [value |-> Deref(job', job'.res),
                    run |-> IF job'.res.summary = None THEN 0 ELSE job'.big.run,
                    dict |-> to_dict(Deref(job', job'.res))]
    /\ UNCHANGED <<mode, pc, backend, call, runs, nbig, qbase, item, queue,
                   raised, meta, saved, saves, outcome>>

Next ==
    \/ Construct
    \/ EntryCheck
    \/ DirectCall
    \/ RunBegin
    \/ RunCreate
    \/ NextItem
    \/ Push
    \/ EntryExcept
    \/ EntryReturn
    \/ ReadResult

Spec == Init /\ [][Next]_vars

\* The steps of run are taken one after the other by the thread that called
\* it: a step that can be taken is taken (each call made by run returns or
\* raises).
FairSpec ==
    /\ Spec
    /\ WF_vars(RunBegin)
    /\ WF_vars(RunCreate)
    /\ WF_vars(NextItem)
    /\ WF_vars(Push)

\* ------------------------------------------------------- shared vocabulary

\* The entries the current call of run has appended to the Redis list.
Pushed == SubSeq(queue, qbase + 1, Len(queue))

\* An error was raised at the given place and ended the last operation.
RaisedAt(place) == raised # None /\ raised.at = place

\* run has been called with the arguments in call, and has begun.
RunCalled == runs >= 1 /\ pc # "run_call"

\* The current call of run has built its items generator.
HasGenerator == job # None /\ job.big # None /\ job.big.run = runs

\* What a read of job.result returns now: the JobResult with its Summary.
CurrentResult == Deref(result(job), result(job).res)

\* ---------------------------------------------------------------- claim C1

\* C1: for every error raised inside run while items are produced or pushed,
\* execute_perceval_job stores the executor's current result under 'result'
\* in the job's metadata and saves it before the error leaves, and the error
\* that leaves is the one raised.
C1_ResultSavedForEveryError ==
    (mode = "entry" /\ pc = "done" /\ (RaisedAt("items") \/ RaisedAt("rpush")))
        => /\ "result" \in DOMAIN saved
           /\ saved["result"] = CurrentResult
           /\ saves = 1
           /\ outcome = [raised |-> raised]

\* ---------------------------------------------------------------- claim C2

\* C2: at every point of a run, the entries the run has appended to the
\* Redis list are, in order, the items its generator has yielded so far,
\* each with its metadata; only the item being pushed (or the one whose
\* push failed) is missing, and what was on the list before stays in front.
C2_QueueFollowsProduction ==
    RunCalled =>
        /\ (runs = 1 => SubSeq(queue, 1, qbase) = InitialQueue)
        /\ qbase <= Len(queue)
        /\ IF HasGenerator
           THEN /\ Len(Pushed) = Len(job.big.produced)
                        - (IF pc = "pushing" \/ RaisedAt("rpush") THEN 1 ELSE 0)
                /\ \A i \in 1..Len(Pushed) :
                        loads(Pushed[i]) = metadata(job, job.big.produced[i])
           ELSE Pushed = <<>>

\* C2 witness: two different items were yielded, the first is on the list
\* and the second is being pushed.
C2_Witness ==
    /\ pc = "pushing"
    /\ HasGenerator
    /\ Len(job.big.produced) = 2
    /\ job.big.produced[1] # job.big.produced[2]
    /\ Len(Pushed) = 1

\* ---------------------------------------------------------------- claim C3

\* The entry function was given non-null archive arguments for a backend
\* that lacks archiving.
C3_Case ==
    /\ mode = "entry"
    /\ job # None
    /\ call # None
    /\ ~has_archiving(job)
    /\ call.archive_args # None

\* C3: for a backend without archiving and any non-null archive arguments,
\* execute_perceval_job raises AttributeError before run is attempted: no
\* generator is built, nothing is pushed, nothing is written to the metadata.
C3_ArchivingRejectedBeforeRun ==
    C3_Case =>
        /\ pc = "done"
        /\ outcome = [raised |-> Error("AttributeError", "execute_perceval_job")]
        /\ runs = 0
        /\ nbig = 0
        /\ job.big = None
        /\ queue = InitialQueue
        /\ meta = EmptyDict
        /\ saved = EmptyDict
        /\ saves = 0

\* C3 witness: the call was rejected for arguments that do not ask to fetch
\* from the archive and name no archive path.
C3_Witness ==
    /\ C3_Case
    /\ pc = "done"
    /\ call.archive_args.fetch_from_archive = Bool(FALSE)
    /\ call.archive_args.archive_path = None

\* ---------------------------------------------------------------- claim C4

\* C4: after run was called a second time on the same executor, whatever
\* the outcome of that call, a read of result never returns statistics of
\* an earlier run.
C4_SecondRunDiscardsFirst ==
    (mode = "direct" /\ runs >= 2 /\ pc \in Idle /\ lastRead # None)
        => lastRead.run \in {0, runs}

\* ---------------------------------------------------------------- claim C5

\* C5: when a run completes without error, the number of items it pushed
\* equals the fetched count of the summary that result exposes.
C5_PushedEqualsFetched ==
    /\ pc = "run_completed"
        => /\ CurrentResult.summary # None
           /\ CurrentResult.summary.fetched = Len(Pushed)
    /\ (pc = "done" /\ outcome # None /\ "returned" \in DOMAIN outcome)
        => /\ outcome.returned.summary # None
           /\ outcome.returned.summary.fetched = Len(Pushed)

\* C5 witness: a completed run that pushed one item and skipped another.
C5_Witness ==
    /\ pc = "run_completed"
    /\ Len(Pushed) = 1
    /\ CurrentResult.summary.skipped = 1

\* ---------------------------------------------------------------- claim C6

\* The run has failed while streaming: the generator raised, or a push did.
C6_Aborted == pc = "run_failed" /\ (RaisedAt("items") \/ RaisedAt("rpush"))

\* C6, the state of the list at the failure: all k items yielded before the
\* generator raised are on the list; when the push of the k-th item raised,
\* the k-1 items pushed before it are.
C6_QueueAtFailure ==
    C6_Aborted =>
        /\ HasGenerator
        /\ Len(Pushed) = Len(job.big.produced) - (IF RaisedAt("rpush") THEN 1 ELSE 0)
        /\ \A i \in 1..Len(Pushed) :
                loads(Pushed[i]) = metadata(job, job.big.produced[i])

\* C6, after the failure: until run is called again the generator is not
\* asked for another item and nothing more is pushed.
C6_NoStepAfterFailure ==
    (C6_Aborted /\ pc' # "run_call")
        => /\ queue' = queue
           /\ job'.big = job.big
           /\ pc' \in {"run_failed", "done"}

\* C6: a failure during streaming aborts the run at that point.
C6_FailureAbortsRun == []C6_QueueAtFailure /\ [][C6_NoStepAfterFailure]_vars

\* C6 witness: the push of the second item failed; the list holds the first.
C6_Witness ==
    /\ pc = "run_failed"
    /\ RaisedAt("rpush")
    /\ Len(job.big.produced) = 2
    /\ Len(Pushed) = 1

\* ---------------------------------------------------------------- claim C7

\* The constructor was given a name that is not in the registry.
C7_Case == backend # None /\ backend.str \notin DOMAIN Registry

\* C7: for a backend name the registry lacks, constructing the executor
\* (and so execute_perceval_job) fails with NotFoundError; no generator is
\* built, the list is unchanged and nothing is written to the metadata.
C7_UnknownBackendNotFound ==
    C7_Case =>
        /\ pc = "done"
        /\ raised = Error("NotFoundError", "__init__")
        /\ mode = "entry" => outcome = [raised |-> raised]
        /\ job = None
        /\ runs = 0
        /\ nbig = 0
        /\ queue = InitialQueue
        /\ meta = EmptyDict
        /\ saved = EmptyDict
        /\ saves = 0

\* C7 witness: the entry function ended on an unknown backend.
C7_Witness == C7_Case /\ mode = "entry" /\ pc = "done"

\* ---------------------------------------------------------------- claim C8

\* run has been called with archive arguments whose archive_path is "".
C8_Case ==
    /\ RunCalled
    /\ call.archive_args # None
    /\ call.archive_args.archive_path = Str("")

\* C8: initialize_archive_manager("") raises ValueError, and a run called
\* with such arguments fails before any fetch: the call sets no archive
\* manager, builds no generator and pushes nothing.
C8_EmptyArchivePathFails ==
    /\ job # None =>
        \A ctor \in ArchiveManagerOutcomes :
            initialize_archive_manager(job, Str(""), ctor, runs + 1)
                = [raised |-> Error("ValueError", "initialize_archive_manager"),
                   job |-> job]
    /\ C8_Case =>
        /\ pc \in {"run_failed", "done"}
        /\ raised = Error("ValueError", "initialize_archive_manager")
        /\ job.archive_manager = None \/ job.archive_manager.run < runs
        /\ job.big = None \/ job.big.run < runs
        /\ Pushed = <<>>

\* C8 witness: the second run of an executor failed on the empty path; the
\* archive manager and the generator of its first run are still there.
C8_Witness ==
    /\ C8_Case
    /\ pc = "run_failed"
    /\ runs = 2
    /\ job.archive_manager # None
    /\ job.big # None

\* ---------------------------------------------------------------- claim C9

\* The blob is one of the backend's items plus the two fields of _metadata.
C9_Tagged(blob) ==
    LET it == loads(blob)
    IN  /\ {"arthur_version", "job_id"} \subseteq DOMAIN it
        /\ it["arthur_version"] = version
        /\ it["job_id"] = job.job_id
        /\ job.job_id = RqJobId
        /\ \E raw \in Items :
            /\ DOMAIN it = DOMAIN raw \cup {"arthur_version", "job_id"}
            /\ \A k \in DOMAIN raw \ {"job_id"} : it[k] = raw[k]

\* C9: every entry an executor pushed is one produced item carrying the
\* version of arthur and the identifier of the job, in every run, failed
\* runs included.
C9_PushedItemsCarryMetadata ==
    job # None =>
        \A i \in (Len(InitialQueue) + 1)..Len(queue) : C9_Tagged(queue[i])

\* C9 witness: a run failed after it pushed an item that came with a job_id
\* of its own.
C9_Witness ==
    /\ pc = "run_failed"
    /\ HasGenerator
    /\ Len(Pushed) >= 1
    /\ "job_id" \in DOMAIN job.big.produced[1]

\* --------------------------------------------------------------- claim C10

\* C10: to_dict always contains job_id, task_id, backend and category, and
\* contains the ten statistics keys, with the summary's values, exactly
\* when a summary has been captured.
C10_ToDictKeys ==
    lastRead # None =>
        LET r == lastRead.value
            d == lastRead.dict
        IN  /\ d.raised = None
            /\ {"job_id", "task_id", "backend", "category"} \subseteq DOMAIN d.value
            /\ d.value["job_id"] = r.job_id
            /\ d.value["task_id"] = r.task_id
            /\ d.value["backend"] = r.backend
            /\ d.value["category"] = r.category
            /\ (StatKeys \subseteq DOMAIN d.value) <=> (r.summary # None)
            /\ (StatKeys \cap DOMAIN d.value # {}) => (StatKeys \subseteq DOMAIN d.value)
            /\ r.summary # None =>
                /\ d.value["fetched"] = r.summary.fetched
                /\ d.value["skipped"] = r.summary.skipped
                /\ d.value["min_updated_on"] = timestamp(r.summary.min_updated_on)
                /\ d.value["max_updated_on"] = timestamp(r.summary.max_updated_on)
                /\ d.value["last_updated_on"] = timestamp(r.summary.last_updated_on)
                /\ d.value["last_uuid"] = r.summary.last_uuid
                /\ d.value["min_offset"] = r.summary.min_offset
                /\ d.value["max_offset"] = r.summary.max_offset
                /\ d.value["last_offset"] = r.summary.last_offset
                /\ d.value["extras"] = r.summary.extras

\* --------------------------------------------------------------- claim C11

\* The entry function's call of run has completed: its generator is
\* exhausted and the entry function has ended.
C11_Case ==
    /\ mode = "entry"
    /\ pc = "done"
    /\ HasGenerator
    /\ job.big.state = "exhausted"

\* C11: when run completes without error, execute_perceval_job returns the
\* executor's result; its job, task, backend and category are those of this
\* job and its statistics are present and equal to the generator's final
\* summary.
C11_ReturnsFinalResult ==
    C11_Case =>
        /\ outcome # None
        /\ DOMAIN outcome = {"returned"}
        /\ outcome.returned = Deref(job, job.res)
        /\ outcome.returned.job_id = RqJobId
        /\ outcome.returned.task_id = TaskId
        /\ Str(outcome.returned.backend) = backend
        /\ outcome.returned.category = Category
        /\ outcome.returned.summary # None
        /\ outcome.returned.summary = job.big.summary

\* C11 witness: the entry function returned after a run that yielded two
\* items.
C11_Witness ==
    /\ C11_Case
    /\ outcome.returned.summary.fetched = 2

\* --------------------------------------------------------------- claim C12

\* C12: run never changes the backend_args the caller passed: the generator
\* works on a copy, so during the run and after it returned or failed the
\* caller's dict holds the keys and values it had at the call.
C12_CallerArgsUnchanged ==
    (call # None /\ RunCalled) => call.backend_args = BackendArgs

\* C12 witness: the run is pushing an item after its generator changed the
\* dict it was given.
C12_Witness ==
    /\ pc = "pushing"
    /\ HasGenerator
    /\ job.big.backend_args = Handle(call.args)
    /\ call.args.dict # BackendArgs
    /\ call.backend_args = BackendArgs

\* --------------------------------------------------------------- claim C13

\* The current run was called without archive_args, or with archive_args
\* whose archive_path is None, and has built its items generator.
C13_Case ==
    /\ RunCalled
    /\ HasGenerator
    /\ \/ call.archive_args = None
       \/ call.archive_args.archive_path = None

\* C13: the archive manager belongs to the run that asked for it: a run
\* called without archive_args (or with archive_path None) builds its items
\* generator with manager None, also when an earlier run on the same job
\* initialized an archive manager.
C13_ManagerOnlyForItsRun ==
    C13_Case => job.big.manager = None

\* --------------------------------------------------------------- claim C14

\* C14: once the current run has built its items generator, what a read of
\* result returns carries the generator's summary as it is at that moment
\* (None only when the generator has none); the value a caller read since
\* the run ended, and the one the entry function returned or stored, is that
\* same summary whole, never an older or a partly merged one.
C14_ResultShowsStreamSummary ==
    HasGenerator =>
        /\ CurrentResult.summary = job.big.summary
        /\ lastRead # None =>
               /\ lastRead.value.summary = job.big.summary
               /\ lastRead.value = CurrentResult
        /\ (outcome # None /\ "returned" \in DOMAIN outcome) =>
               outcome.returned.summary = job.big.summary
        /\ saves >= 1 => saved.result.summary = job.big.summary

\* C14 witness: a run aborted after one item reached the queue, and the
\* result read after it shows that one item.
C14_Witness ==
    /\ HasGenerator
    /\ pc = "run_failed"
    /\ lastRead # None
    /\ lastRead.value.summary # None
    /\ lastRead.value.summary.fetched = 1

\* --------------------------------------------------------------- claim C15

Phase(p) ==
    CASE p \in {"start", "constructed"} -> "Idle"
      [] p \in {"run_call", "run_initialized"} -> "Initializing"
      [] p \in {"streaming", "pushing"} -> "Streaming"
      [] p = "run_completed" -> "Completed"
      [] p = "run_failed" -> "Failed"
      [] p = "done" -> "Left"

\* The steps from phase to phase a run may take; a new call of run is the
\* only way out of Completed and Failed back into a run.
PhaseSteps ==
    {<<"Idle", "Initializing">>, <<"Initializing", "Streaming">>,
     <<"Initializing", "Failed">>, <<"Streaming", "Completed">>,
     <<"Streaming", "Failed">>, <<"Completed", "Initializing">>,
     <<"Failed", "Initializing">>, <<"Idle", "Left">>,
     <<"Completed", "Left">>, <<"Failed", "Left">>}

\* The step replaces the result by a new one, visibly: a summary it held is
\* gone.
C16_ResultReset ==
    job # None /\ job.res.summary # None /\ job'.res.summary = None

\* The step assigns the items generator.
C16_GeneratorCreated ==
    job # None /\ job'.big # job.big /\ (job.big = None \/ job'.big.id # job.big.id)

\* The archive manager the call asked for has been set up by this run.
C16_ArchiveSetUp ==
    (Truthy(call.archive_args) /\ Truthy(call.archive_args.archive_path)) =>
        /\ job.archive_manager # None
        /\ job.archive_manager.run = runs
        /\ job.archive_manager.path = call.archive_args.archive_path

C16_Step ==
    /\ Phase(pc') # Phase(pc) => <<Phase(pc), Phase(pc')>> \in PhaseSteps
    /\ (Phase(pc') = "Initializing" /\ Phase(pc) # "Initializing") => pc' = "run_call"
    /\ (C16_ResultReset \/ C16_GeneratorCreated) =>
           /\ pc = "run_initialized"
           /\ raised = None
           /\ C16_ArchiveSetUp
    /\ C16_GeneratorCreated => Phase(pc') = "Streaming"
    /\ queue' # queue => (Phase(pc) = "Streaming" /\ pc = "pushing")
    /\ Phase(pc) \in {"Completed", "Failed", "Left"} =>
           /\ queue' = queue
           /\ nbig' = nbig
           /\ job'.big = job.big

\* C16: a run goes from Idle through Initializing and Streaming to
\* Completed or Failed and never backwards; the result is replaced and the
\* items generator created only once the archive manager is set up, the
\* queue grows only while Streaming, and once Completed or Failed nothing
\* is pushed and no generator is created or replaced until run is called
\* again.
C16_PhasesInOrder ==
    [][C16_Step]_vars

\* C16 witness: a second run, after the first one ended, is streaming with
\* an item in hand.
C16_Witness ==
    /\ runs = 2
    /\ pc = "pushing"
    /\ HasGenerator
    /\ job.big.id = 2

\* --------------------------------------------------------------- claim C17

\* A call of run has ended: it returned or it raised.
C17_Ended == pc \in {"run_completed", "run_failed", "done"}

\* run returns only from an exhausted generator with every item it produced
\* pushed, and a generator that is exhausted is not asked for an item again.
C17_CompletesAfterLastPush ==
    /\ (pc = "run_completed" /\ RunCalled) =>
           /\ HasGenerator
           /\ job.big.state = "exhausted"
           /\ item = None
           /\ Len(Pushed) = Len(job.big.produced)
    /\ (job # None /\ job.big # None /\ job.big.state \in {"exhausted", "failed"}) =>
           pc \notin {"streaming", "pushing"}

\* C17: every call of run ends, Completed or Failed, when the backend's items
\* are finitely many and every step returns or raises; it completes after
\* the last produced item was pushed and never asks an exhausted generator
\* for an item.
C17_RunEnds ==
    /\ []C17_CompletesAfterLastPush
    /\ (pc = "run_call") ~> C17_Ended

\* C17 witness: a second call of run completed after as many items as the
\* backend has were produced and pushed.
C17_Witness ==
    /\ runs = 2
    /\ pc = "run_completed"
    /\ job.big.state = "exhausted"
    /\ Len(job.big.produced) = MaxItems
    /\ Len(Pushed) = MaxItems

\* --------------------------------------------------------------- claim C18

\* The places inside run where an error is raised.
C18_RunPlaces ==
    {"initialize_archive_manager", "ArchiveManager", "BackendItemsGenerator",
     "items", "rpush"}

\* C18: in a call of execute_perceval_job the key 'result' of the job's
\* metadata is written at most once, and only after run raised: never when
\* run returned, when the backend is unknown or when the archiving check
\* refused the call; what is written carries the ids of the failing job.
C18_ResultWrittenOnlyAfterRunRaised ==
    mode = "entry" =>
        /\ saves <= 1
        /\ saves = 0 => (meta = EmptyDict /\ saved = EmptyDict)
        /\ saves = 1 =>
               /\ pc = "done"
               /\ raised # None
               /\ raised.at \in C18_RunPlaces
               /\ outcome = [raised |-> raised]
               /\ DOMAIN meta = {"result"}
               /\ saved = meta
               /\ meta["result"].job_id = RqJobId
               /\ meta["result"].job_id = job.job_id
               /\ meta["result"].task_id = TaskId
               /\ meta["result"].task_id = job.task_id
        /\ (outcome # None /\ "returned" \in DOMAIN outcome) => saves = 0
        /\ (pc = "done" /\ C7_Case) => saves = 0
        /\ (pc = "done" /\ C3_Case /\ runs = 0) => saves = 0

\* C18 witness: run raised after one item was pushed and the result was
\* stored.
C18_Witness ==
    /\ mode = "entry"
    /\ saves = 1
    /\ RaisedAt("items")
    /\ meta["result"].summary # None
    /\ meta["result"].summary.fetched = 1

====
